---------------------------- MODULE Spec2Model ----------------------------
(***************************************************************************)
(* A model of opensoundscape/localization.py: SpatialEvent, the            *)
(* SynchronizedRecorderArray (localize_detections, create_candidate_events,*)
(* make_nearby_files_dict) and the solvers behind localize().              *)
(*                                                                         *)
(* Numbers are exact: a float is a rational <<n, d>> in lowest terms with  *)
(* d > 0, or one of the IEEE specials NaN, Inf, -Inf.  Times of arrival are   *)
(* multiples of 1/SPEED_OF_SOUND seconds, so one unit of delay is one      *)
(* metre of path difference.                                               *)
(***************************************************************************)
EXTENDS Integers, Sequences, FiniteSets, TLC

(***************************************************************************)
(* Floats                                                                  *)
(***************************************************************************)
\* the IEEE specials are the "fractions" with a zero denominator
NaN == <<0, 0>>
Inf == <<1, 0>>
NInf == <<-1, 0>>

Abs(n) == IF n < 0 THEN -n ELSE n

RECURSIVE GCD(_, _)
GCD(a, b) == IF b = 0 THEN a ELSE GCD(b, a % b)

\* the rational n/d in lowest terms with a positive denominator (d # 0)
Rat(n, d) ==
    LET g == GCD(Abs(n), Abs(d))
        s == IF d < 0 THEN -1 ELSE 1
    IN  <<(s * n) \div g, (s * d) \div g>>

Int2F(n) == <<n, 1>>
Zero == Int2F(0)
One == Int2F(1)
Half == <<1, 2>>

IsNaN(a) == a = NaN
IsInf(a) == a \in {Inf, NInf}
IsFinite(a) == ~IsNaN(a) /\ ~IsInf(a)
\* -1, 0 or 1 (a is not NaN)
Sign(a) == IF a = Inf THEN 1
           ELSE IF a = NInf THEN -1
           ELSE IF a[1] > 0 THEN 1 ELSE IF a[1] < 0 THEN -1 ELSE 0
Signed(s) == IF s > 0 THEN Inf ELSE NInf

FNeg(a) == IF IsNaN(a) THEN NaN
           ELSE IF a = Inf THEN NInf
           ELSE IF a = NInf THEN Inf
           ELSE <<-a[1], a[2]>>
FAdd(a, b) == IF IsNaN(a) \/ IsNaN(b) THEN NaN
              ELSE IF IsInf(a) THEN (IF IsInf(b) /\ b # a THEN NaN ELSE a)
              ELSE IF IsInf(b) THEN b
              ELSE LET g == GCD(a[2], b[2])
                   IN  Rat(a[1] * (b[2] \div g) + b[1] * (a[2] \div g),
                           (a[2] \div g) * b[2])
FSub(a, b) == FAdd(a, FNeg(b))
FMul(a, b) == IF IsNaN(a) \/ IsNaN(b) THEN NaN
              ELSE IF IsInf(a) \/ IsInf(b)
                   THEN (IF Sign(a) * Sign(b) = 0 THEN NaN
                         ELSE Signed(Sign(a) * Sign(b)))
              ELSE LET g1 == GCD(Abs(a[1]), b[2])
                       g2 == GCD(Abs(b[1]), a[2])
                   IN  <<(a[1] \div g1) * (b[1] \div g2),
                         (a[2] \div g2) * (b[2] \div g1)>>
\* IEEE division: x/0 is an infinity, 0/0 and inf/inf are NaN
FDiv(a, b) == IF IsNaN(a) \/ IsNaN(b) THEN NaN
              ELSE IF IsInf(a) THEN (IF IsInf(b) THEN NaN
                                     ELSE Signed(Sign(a) * (IF Sign(b) < 0 THEN -1 ELSE 1)))
              ELSE IF IsInf(b) THEN Zero
              ELSE IF b[1] = 0 THEN (IF a[1] = 0 THEN NaN ELSE Signed(Sign(a)))
              ELSE FMul(a, IF b[1] < 0 THEN <<-b[2], -b[1]>> ELSE <<b[2], b[1]>>)
FAbs(a) == IF IsNaN(a) THEN NaN
           ELSE IF IsInf(a) THEN Inf
           ELSE <<Abs(a[1]), a[2]>>

\* a < b, a > b, a <= b as IEEE comparisons: any comparison with NaN is false
FLt(a, b) ==
    IF IsNaN(a) \/ IsNaN(b) THEN FALSE
    ELSE IF a = b THEN FALSE
    ELSE IF a = NInf \/ b = Inf THEN TRUE
    ELSE IF a = Inf \/ b = NInf THEN FALSE
    ELSE LET g == GCD(a[2], b[2])
         IN  a[1] * (b[2] \div g) < b[1] * (a[2] \div g)
FGt(a, b) == FLt(b, a)
FLe(a, b) ==
    IF IsNaN(a) \/ IsNaN(b) THEN FALSE
    ELSE a = b \/ FLt(a, b)

\* the least k in lo..hi with k * k >= n, by bisection (hi * hi >= n)
RECURSIVE ISqrtIn(_, _, _)
ISqrtIn(n, lo, hi) ==
    IF lo >= hi THEN lo
    ELSE LET mid == (lo + hi) \div 2
         IN  IF mid * mid >= n THEN ISqrtIn(n, lo, mid) ELSE ISqrtIn(n, mid + 1, hi)
\* the integer square root of a perfect square n >= 0
ISqrt(n) == ISqrtIn(n, 0, IF n < 46340 THEN n ELSE 46340)
IsSquare(n) == n >= 0 /\ ISqrt(n) * ISqrt(n) = n

HasRationalRoot(a) == IsFinite(a) /\ IsSquare(a[1]) /\ IsSquare(a[2])
\* np.sqrt(a) for a >= 0; an irrational root is no float of the model, and
\* arithmetic on it is an evaluation error
FSqrt(a) == IF IsNaN(a) THEN NaN
            ELSE IF a = Inf THEN Inf
            ELSE IF HasRationalRoot(a) THEN <<ISqrt(a[1]), ISqrt(a[2])>>
            ELSE <<"irrational", a>>

\* The root mean square is kept exactly, as the float under the root:
\* Root(q) stands for sqrt(q), q >= 0 or NaN.
Root(q) == IF IsNaN(q) THEN NaN ELSE <<q[1], q[2], 2>>
Radicand(r) == <<r[1], r[2]>>
\* sqrt(q) < t and sqrt(q) <= t as IEEE comparisons
RootLt(r, t) ==
    IF IsNaN(r) \/ IsNaN(t) THEN FALSE
    ELSE IF t = Inf THEN TRUE
    ELSE IF t = NInf \/ Sign(t) <= 0 THEN FALSE
    ELSE FLt(Radicand(r), FMul(t, t))
RootLe(r, t) ==
    IF IsNaN(r) \/ IsNaN(t) THEN FALSE
    ELSE IF t = Inf THEN TRUE
    ELSE IF t = NInf \/ Sign(t) < 0 THEN FALSE
    ELSE FLe(Radicand(r), FMul(t, t))

(***************************************************************************)
(* Vectors and matrices of floats, as sequences                            *)
(***************************************************************************)
\* the sequence with the elements of f, evaluated once
Tuple(f) == f \o <<>>

RECURSIVE FSum(_)
FSum(v) == IF v = <<>> THEN Zero ELSE FAdd(v[1], FSum(Tail(v)))

VSub(u, v) == Tuple([i \in 1..Len(u) |-> FSub(u[i], v[i])])
VAdd(u, v) == Tuple([i \in 1..Len(u) |-> FAdd(u[i], v[i])])
VScale(c, v) == Tuple([i \in 1..Len(v) |-> FMul(c, v[i])])
Dot(u, v) == FSum(Tuple([i \in 1..Len(u) |-> FMul(u[i], v[i])]))
\* np.sum(v ** 2)
SumSq(v) == Dot(v, v)
\* np.linalg.norm(v)
Norm(v) == FSqrt(SumSq(v))
\* np.mean(v)
Mean(v) == FDiv(FSum(v), Int2F(Len(v)))

\* M is a sequence of rows
MatVec(M, v) == Tuple([i \in 1..Len(M) |-> Dot(M[i], v)])
Transpose(M, ncols) == Tuple([j \in 1..ncols |-> Tuple([i \in 1..Len(M) |-> M[i][j]])])
MatMul(M, N, ncols) ==
    LET Nt == Transpose(N, ncols)
    IN  Tuple([i \in 1..Len(M) |-> Tuple([j \in 1..ncols |-> Dot(M[i], Nt[j])])])
Trace(M) == FSum(Tuple([i \in 1..Len(M) |-> M[i][i]]))

(***************************************************************************)
(* Constants of the program                                                *)
(***************************************************************************)
SPEED_OF_SOUND == 343
\* the default of localize_detections' cc_threshold
DEFAULT_CC_THRESHOLD == Zero
\* Python's None, for an attribute or argument that holds a float or a list
None == <<>>

(***************************************************************************)
(* np.linalg.lstsq(A, w, rcond=None)[0]: the least-squares solution of     *)
(* minimum norm, x = pinv(A) w = pinv(G) b with G = A^T A and b = A^T w.   *)
(* With e_1..e_r the elementary symmetric polynomials of G's eigenvalues   *)
(* (Newton's identities on the traces of its powers) and r = rank G, G     *)
(* satisfies G^r - e_1 G^(r-1) + ... + (-1)^r e_r = 0 on its range, which  *)
(* gives pinv(G) b as a combination of b, G b, ..., G^(r-1) b.             *)
(***************************************************************************)
Identity(k) == Tuple([i \in 1..k |-> Tuple([j \in 1..k |-> IF i = j THEN One ELSE Zero])])

\* <<G^0, G^1, ..., G^m>>
RECURSIVE Powers(_, _, _)
Powers(G, k, m) ==
    IF m = 0 THEN <<Identity(k)>>
    ELSE LET below == Powers(G, k, m - 1)
         IN  Append(below, MatMul(below[m], G, k))

\* Newton's identities: j e_j = sum over i in 1..j of (-1)^(i-1) e_(j-i) p_i,
\* with p_i the trace of G^i = powers[i + 1] and e_i = syms[i + 1]
RECURSIVE NewtonSum(_, _, _, _)
NewtonSum(powers, syms, j, i) ==
    IF i > j THEN Zero
    ELSE FAdd(FMul(Int2F(IF i % 2 = 1 THEN 1 ELSE -1),
                   FMul(syms[j - i + 1], Trace(powers[i + 1]))),
              NewtonSum(powers, syms, j, i + 1))
\* <<e_0, ..., e_j>>: the elementary symmetric polynomials of the eigenvalues
RECURSIVE ElemSyms(_, _)
ElemSyms(powers, j) ==
    IF j = 0 THEN <<One>>
    ELSE LET below == ElemSyms(powers, j - 1)
         IN  Append(below, FDiv(NewtonSum(powers, below, j, 1), Int2F(j)))
\* e_j of the k x k matrix G; e_k is its determinant
ElemSym(G, k, j) == ElemSyms(Powers(G, k, j), j)[j + 1]

\* rank of a positive semidefinite matrix: the last j with e_j # 0
RECURSIVE RankFrom(_, _)
RankFrom(syms, j) ==
    IF j = 0 THEN 0
    ELSE IF syms[j + 1] # Zero THEN j ELSE RankFrom(syms, j - 1)
Rank(G, k) == RankFrom(ElemSyms(Powers(G, k, k), k), k)

RECURSIVE KrylovSum(_, _, _, _, _, _)
KrylovSum(powers, syms, k, b, r, j) ==
    IF j > r - 1 THEN Tuple([i \in 1..k |-> Zero])
    ELSE VAdd(VScale(FMul(Int2F(IF j % 2 = 0 THEN 1 ELSE -1), syms[j + 1]),
                     MatVec(powers[r - j], b)),
              KrylovSum(powers, syms, k, b, r, j + 1))
PinvFrom(powers, syms, k, b, r) ==
    IF r = 0 THEN Tuple([i \in 1..k |-> Zero])
    ELSE VScale(FDiv(Int2F(IF r % 2 = 1 THEN 1 ELSE -1), syms[r + 1]),
                KrylovSum(powers, syms, k, b, r, 0))
PinvWith(powers, syms, k, b) == PinvFrom(powers, syms, k, b, RankFrom(syms, k))
PinvOf(powers, k, b) == PinvWith(powers, ElemSyms(powers, k), k, b)
\* pinv(G) b for b in the range of the positive semidefinite k x k matrix G
\* (Cayley-Hamilton on the nonzero eigenvalues)
PinvApply(G, k, b) == PinvOf(Powers(G, k, k), k, b)

Lstsq(A, w, k) ==
    LET At == Transpose(A, k)
        G == MatMul(At, A, k)
        b == MatVec(At, w)
    IN  PinvApply(G, k, b)

(***************************************************************************)
(* The solvers                                                             *)
(***************************************************************************)
\* what a call does: it returns a value or raises, and may warn
Return(v) == [raised |-> "", value |-> v, warnings |-> {}]
ReturnWarn(v, w) == [raised |-> "", value |-> v, warnings |-> w]
Raise(e) == [raised |-> e, value |-> None, warnings |-> {}]

\* lorentz_ip(u, v) for vectors of length 3 or 4
lorentz_ip(u, v) ==
    LET k == Len(u)
    IN  FSub(FSum(Tuple([i \in 1..(k - 1) |-> FMul(u[i], v[i])])), FMul(u[k], v[k]))

\* a test that takes every arrival time to be close to zero
IsCloseAlways(a) == TRUE

\* np.isclose(a, 0): abs(a) <= atol = 1e-8
IsCloseZero(a) ==
    IF ~IsFinite(a) THEN FALSE
    ELSE Abs(a[1]) = 0 \/ Abs(a[1]) <= a[2] \div 100000000

\* np.argmin(v): the first index of the least element (v is not empty)
ArgMin(v) ==
    CHOOSE i \in 1..Len(v) :
        /\ \A j \in 1..Len(v) : FLe(v[i], v[j])
        /\ \A j \in 1..(i - 1) : ~FLe(v[j], v[i])

\* np.roll(s, -k, axis=0)
Roll(s, k) == SubSeq(s, k + 1, Len(s)) \o SubSeq(s, 1, k)

\* a solver that answers with the position of the first receiver
GilletteAtReference(receiver_positions, arrival_times, speed_of_sound) ==
    Return(receiver_positions[1])

gillette_localize(receiver_positions, arrival_times, speed_of_sound) ==
    LET n == Len(arrival_times)
        absT == Tuple([i \in 1..n |-> FAbs(arrival_times[i])])
    IN  IF n = 0 \/ ~IsCloseZero(absT[ArgMin(absT)]) THEN Raise("ValueError")
        ELSE
        LET dim == Len(receiver_positions[1])
            ref_receiver == ArgMin(absT) - 1
            ordered_receivers == Roll(receiver_positions, ref_receiver)
            ordered_tdoas == Roll(arrival_times, ref_receiver)
            A == Tuple([m \in 1..(n - 1) |->
                    Tuple([column \in 1..(dim + 1) |->
                        IF column <= dim
                        THEN FSub(ordered_receivers[1][column],
                                  ordered_receivers[m + 1][column])
                        ELSE FMul(ordered_tdoas[m + 1], speed_of_sound)])])
            X02 == SumSq(ordered_receivers[1])
            dmx == Tuple([m \in 1..(n - 1) |-> FMul(ordered_tdoas[m + 1], speed_of_sound)])
            XM2 == Tuple([m \in 1..(n - 1) |-> SumSq(ordered_receivers[m + 1])])
            vec_w == Tuple([m \in 1..(n - 1) |->
                        FMul(Half, FSub(FAdd(dmx[m], X02), XM2[m]))])
            answer == Lstsq(A, vec_w, dim + 1)
        IN  Return(SubSeq(answer, 1, dim))

\* np.linalg.inv(G) of a non-singular symmetric k x k matrix
Inverse(G, k) ==
    LET col == Tuple([j \in 1..k |-> PinvApply(G, k, Identity(k)[j])])
    IN  Tuple([i \in 1..k |-> Tuple([j \in 1..k |-> col[j][i]])])

\* an array of dim NaN, of the shape (dim,) of a solution
NanVector(dim) == Tuple([i \in 1..dim |-> NaN])

\* [[np.nan]] * dim: a list of dim one-element lists
NanColumn(dim) == Tuple([i \in 1..dim |-> <<NaN>>])

\* x + y * sqrt(D) for an irrational sqrt(D): a coordinate that is no float
Surd(x, y, D) == <<x[1], x[2], y[1], y[2], D[1], D[2]>>

\* soundfinder_localize with its defaults (invert_alg="gps", center=True,
\* pseudo=True), in the order of its statements.

\* warr = receiver_positions.mean(axis=0)
SfMean(receiver_positions, n, dim) ==
    Tuple([c \in 1..dim |->
              Mean(Tuple([i \in 1..n |-> receiver_positions[i][c]]))])

\* B: the centered positions with the pseudorange column -arrival_times * speed
SfB(receiver_positions, arrival_times, speed_of_sound, p_mean, n) ==
    Tuple([i \in 1..n |->
              Append(VSub(receiver_positions[i], p_mean),
                     FMul(arrival_times[i], FNeg(speed_of_sound)))])

\* a = 0.5 * lorentz_ip(B, B)
SfA(B, n) == Tuple([i \in 1..n |-> FMul(Half, lorentz_ip(B[i], B[i]))])

\* e = np.ones(n)
SfE(n) == Tuple([i \in 1..n |-> One])

\* pseudo: the solution with the smaller abs of its last coordinate
SfSelect(dim, warned, u0, u1) ==
    IF FLe(FAbs(u0[dim + 1]), FAbs(u1[dim + 1]))
    THEN ReturnWarn(SubSeq(u0, 1, dim), warned)
    ELSE ReturnWarn(SubSeq(u1, 1, dim), warned)

\* sqrt(disc) is irrational (so cA # 0): u0 = U - V sqrt(disc) and
\* u1 = U + V sqrt(disc), and abs(u0[-1]) <= abs(u1[-1]) iff U[-1] * V[-1] >= 0
SfSelectSurd(dim, warned, disc, U, V) ==
    LET first == Sign(FMul(U[dim + 1], V[dim + 1])) >= 0
    IN  ReturnWarn(Tuple([c \in 1..dim |->
                      Surd(U[c], IF first THEN FNeg(V[c]) ELSE V[c], disc)]),
                   warned)

\* one root of the quadratic put back: Bplus (a + lamb e), uncentered
SfSolution(Bplus, a, e, lamb, shift) ==
    VAdd(MatVec(Bplus, VAdd(a, VScale(lamb, e))), shift)

\* the discriminant, its two roots and the two solutions
SfRoots(dim, shift, a, e, Bplus, Bplus_a, Bplus_e, cA, cB, cC) ==
    LET disc0 == FSub(FMul(cB, cB), FMul(Int2F(4), FMul(cA, cC)))
        negative == FLt(disc0, Zero)
        disc == IF negative THEN Zero ELSE disc0
        warned == IF negative THEN {"Discriminant negative"} ELSE {}
        twoA == FMul(Int2F(2), cA)
    IN  IF HasRationalRoot(disc)
        THEN SfSelect(dim, warned,
                 SfSolution(Bplus, a, e, FDiv(FSub(FNeg(cB), FSqrt(disc)), twoA), shift),
                 SfSolution(Bplus, a, e, FDiv(FAdd(FNeg(cB), FSqrt(disc)), twoA), shift))
        ELSE SfSelectSurd(dim, warned, disc,
                 VAdd(VAdd(Bplus_a, VScale(FDiv(FNeg(cB), twoA), Bplus_e)), shift),
                 VScale(FDiv(One, twoA), Bplus_e))

\* the coefficients of the quadratic in lambda
SfQuadratic(dim, shift, a, e, Bplus, Bplus_a, Bplus_e) ==
    SfRoots(dim, shift, a, e, Bplus, Bplus_a, Bplus_e,
            lorentz_ip(Bplus_e, Bplus_e),
            FMul(Int2F(2), FSub(lorentz_ip(Bplus_e, Bplus_a), One)),
            lorentz_ip(Bplus_a, Bplus_a))

SfApply(dim, shift, a, e, Bplus) ==
    SfQuadratic(dim, shift, a, e, Bplus, MatVec(Bplus, a), MatVec(Bplus, e))

\* Bplus = inv(B.T @ B) @ B.T, or the nan column when inv raises LinAlgError
SfInvert(dim, n, shift, B, Bt, a, e) ==
    LET to_invert == MatMul(Bt, B, dim + 1)
    IN  IF ElemSym(to_invert, dim + 1, dim + 1) = Zero
        THEN ReturnWarn(NanColumn(dim), {"Singular matrix"})
        ELSE SfApply(dim, shift, a, e, MatMul(Inverse(to_invert, dim + 1), Bt, n))

SfCentered(dim, n, shift, B) ==
    SfInvert(dim, n, shift, B, Transpose(B, dim + 1), SfA(B, n), SfE(n))

SfFrom(receiver_positions, arrival_times, speed_of_sound, n, dim, p_mean) ==
    SfCentered(dim, n, Append(p_mean, Zero),
               SfB(receiver_positions, arrival_times, speed_of_sound, p_mean, n))

soundfinder_localize(receiver_positions, arrival_times, speed_of_sound) ==
    LET n == Len(receiver_positions)
        dim == Len(receiver_positions[1])
    IN  IF dim \notin {2, 3} THEN Raise("AssertionError")
        ELSE SfFrom(receiver_positions, arrival_times, speed_of_sound, n, dim,
                    SfMean(receiver_positions, n, dim))

\* whether a position estimate has the shape (dim, 1) of NanColumn and not (dim,)
IsColumn(position) == \A i \in 1..Len(position) : Len(position[i]) = 1

\* the square of np.linalg.norm(r - position_estimate): for an estimate of
\* shape (dim, 1) the difference broadcasts to a dim x dim matrix, and the
\* norm is Frobenius'
DistanceSquaredTo(r, position_estimate) ==
    IF IsColumn(position_estimate)
    THEN FSum(Tuple([i \in 1..Len(position_estimate) |->
                        SumSq(Tuple([j \in 1..Len(r) |-> FSub(r[j], position_estimate[i][1])]))]))
    ELSE SumSq(VSub(r, position_estimate))
DistanceTo(r, position_estimate) == FSqrt(DistanceSquaredTo(r, position_estimate))

\* two distances that are the same irrational number, given by their squares:
\* the same float, whose difference is exactly 0
SameIrrational(a, b) == IsFinite(a) /\ ~HasRationalRoot(a) /\ a = b

\* residuals of delays that are not taken relative to the first receiver
TdoaResidualsUnreferenced(receiver_positions, tdoas, position_estimate, speed_of_sound) ==
    LET n == Len(receiver_positions)
        distances == Tuple([i \in 1..n |-> DistanceTo(receiver_positions[i], position_estimate)])
        travel_times == Tuple([i \in 1..n |-> FDiv(distances[i], speed_of_sound)])
        time_residuals == Tuple([i \in 1..n |-> FSub(travel_times[i], tdoas[i])])
    IN  Tuple([i \in 1..n |-> FMul(time_residuals[i], speed_of_sound)])

\* travel_times - travel_times[0] is taken receiver by receiver, so that two
\* equal irrational distances need no float of their own
calculate_tdoa_residuals(receiver_positions, tdoas, position_estimate, speed_of_sound) ==
    LET n == Len(receiver_positions)
        squares == Tuple([i \in 1..n |->
                       DistanceSquaredTo(receiver_positions[i], position_estimate)])
        expected_tdoas ==
            Tuple([i \in 1..n |->
                IF SameIrrational(squares[i], squares[1]) THEN Zero
                ELSE FSub(FDiv(FSqrt(squares[i]), speed_of_sound),
                          FDiv(FSqrt(squares[1]), speed_of_sound))])
        time_residuals == Tuple([i \in 1..n |-> FSub(expected_tdoas[i], tdoas[i])])
    IN  Tuple([i \in 1..n |-> FMul(time_residuals[i], speed_of_sound)])

\* a dispatch that takes every other name for "gillette"
LocalizeDefault(receiver_positions, tdoas, algorithm, speed_of_sound) ==
    IF algorithm = "soundfinder"
    THEN soundfinder_localize(receiver_positions, tdoas, speed_of_sound)
    ELSE gillette_localize(receiver_positions, tdoas, speed_of_sound)

localize(receiver_positions, tdoas, algorithm, speed_of_sound) ==
    IF algorithm = "soundfinder"
    THEN soundfinder_localize(receiver_positions, tdoas, speed_of_sound)
    ELSE IF algorithm = "gillette"
    THEN gillette_localize(receiver_positions, tdoas, speed_of_sound)
    ELSE Raise("ValueError")

(***************************************************************************)
(* SpatialEvent                                                            *)
(***************************************************************************)
\* an attribute that was never assigned (distance_residuals before the first
\* calculate_distance_residuals); a stored residual vector is never empty
Unset == <<>>

\* an __init__ that starts residual_rms at 0 instead of None
SpatialEventWithRms(receiver_files, receiver_positions, start_time, duration, class_name, bandpass_range, cc_threshold, max_delay) ==
    [receiver_files |-> receiver_files,
     receiver_positions |-> receiver_positions,
     start_time |-> start_time,
     duration |-> duration,
     class_name |-> class_name,
     bandpass_range |-> bandpass_range,
     cc_threshold |-> cc_threshold,
     max_delay |-> max_delay,
     tdoas |-> None,
     cc_maxs |-> None,
     position_estimate |-> None,
     residual_rms |-> Root(Zero),
     distance_residuals |-> Unset]

\* SpatialEvent.__init__
SpatialEvent(receiver_files, receiver_positions, start_time, duration, class_name, bandpass_range, cc_threshold, max_delay) ==
    [receiver_files |-> receiver_files,
     receiver_positions |-> receiver_positions,
     start_time |-> start_time,
     duration |-> duration,
     class_name |-> class_name,
     bandpass_range |-> bandpass_range,
     cc_threshold |-> cc_threshold,
     max_delay |-> max_delay,
     tdoas |-> None,
     cc_maxs |-> None,
     position_estimate |-> None,
     residual_rms |-> None,
     distance_residuals |-> Unset]

\* the range estimate_delays bandpasses both audios to: its argument
BandpassUsed(self, bandpass_range) == bandpass_range

\* a loop that gives the first file the delay and the maximum of the first
\* cross-correlation instead of 0 and 1
EstimateDelaysLoopAll(self, xc) ==
    LET n == Len(self.receiver_files)
        tdoas == <<xc[1][1]>> \o Tuple([i \in 1..(n - 1) |-> xc[i][1]])
        cc_maxs == <<xc[1][2]>> \o Tuple([i \in 1..(n - 1) |-> xc[i][2]])
    IN  [self EXCEPT !.tdoas = tdoas, !.cc_maxs = cc_maxs]

\* The loop of estimate_delays over receiver_files[1:], given what
\* audio.estimate_delay returned for each of them: xc[i] = <<tdoa, cc_max>>.
EstimateDelaysLoop(self, xc) ==
    LET n == Len(self.receiver_files)
        tdoas == <<Zero>> \o Tuple([i \in 1..(n - 1) |-> xc[i][1]])
        cc_maxs == <<One>> \o Tuple([i \in 1..(n - 1) |-> xc[i][2]])
    IN  [self EXCEPT !.tdoas = tdoas, !.cc_maxs = cc_maxs]

\* an estimate_location that estimates the delays again at every call
DelaysMissingAlways(self) == TRUE

\* if self.tdoas is None or self.cc_maxs is None
DelaysMissing(self) == self.tdoas = None \/ self.cc_maxs = None

\* self.cc_maxs > cc_threshold, for one receiver
CcMask(cc_max, cc_threshold) == FGt(cc_max, cc_threshold)

\* v[mask]: the elements of v at the indices where mask holds, in order
RECURSIVE MaskedFrom(_, _, _)
MaskedFrom(v, mask, i) ==
    IF i > Len(v) THEN <<>>
    ELSE (IF mask[i] THEN <<v[i]>> ELSE <<>>) \o MaskedFrom(v, mask, i + 1)
Masked(v, mask) == MaskedFrom(v, mask, 1)

\* the receivers estimate_location keeps for the solver
KeptMask(self, cc_threshold) ==
    Tuple([i \in 1..Len(self.tdoas) |->
              IF cc_threshold = None THEN TRUE
              ELSE CcMask(self.cc_maxs[i], cc_threshold)])

\* SpatialEvent.calculate_distance_residuals: <<self', returned value>>
calculate_distance_residuals(self, speed_of_sound) ==
    IF self.tdoas = None \/ self.position_estimate = None
    THEN <<self, None>>
    ELSE LET r == calculate_tdoa_residuals(self.receiver_positions, self.tdoas,
                                           self.position_estimate, speed_of_sound)
         IN  <<[self EXCEPT !.distance_residuals = r], r>>

\* SpatialEvent.calculate_residual_rms: <<self', returned value>>
calculate_residual_rms(self, speed_of_sound) ==
    IF self.tdoas = None \/ self.position_estimate = None
    THEN <<self, None>>
    ELSE LET c == calculate_distance_residuals(self, speed_of_sound)
             residuals == c[2]
             squares == Tuple([i \in 1..Len(residuals) |-> FMul(residuals[i], residuals[i])])
         IN  <<c[1], Root(Mean(squares))>>

\* len(tdoas) < min_n_receivers
NotEnoughReceivers(n_tdoas, min_n_receivers) == n_tdoas < min_n_receivers

\* an estimate_location that clears the estimate before it raises
RaiseInsufficientCleared(self) ==
    [self |-> [self EXCEPT !.position_estimate = None, !.residual_rms = None],
     raised |-> "InsufficientReceiversError", value |-> None, solver |-> None]

\* raise InsufficientReceiversError: nothing of the event has been assigned
RaiseInsufficient(self) ==
    [self |-> self, raised |-> "InsufficientReceiversError",
     value |-> None, solver |-> None]

\* a residual rms over the receivers the position was solved from
RmsOfSolved(self, positions, tdoas, speed_of_sound) ==
    LET r == calculate_tdoa_residuals(positions, tdoas, self.position_estimate,
                                      speed_of_sound)
        squares == Tuple([i \in 1..Len(r) |-> FMul(r[i], r[i])])
    IN  <<[self EXCEPT !.distance_residuals = r], Root(Mean(squares))>>

\* self.calculate_residual_rms(speed_of_sound=speed_of_sound) at the end of
\* estimate_location: the method reads the event, not the filtered copies
RmsOfEstimate(self, positions, tdoas, speed_of_sound) ==
    calculate_residual_rms(self, speed_of_sound)

\* a filter that assigns what it keeps to the event
FilterInPlace(self, tdoas, positions) ==
    [self EXCEPT !.tdoas = tdoas, !.receiver_positions = positions]

\* tdoas = self.tdoas; tdoas = tdoas[self.cc_maxs > cc_threshold], and the
\* same for positions: the filter binds local names, the event keeps its arrays
AfterFilter(self, tdoas, positions) == self

\* SpatialEvent.estimate_location after its call of estimate_delays (when one
\* was needed): self holds tdoas and cc_maxs. The result is the event after
\* the call with what the call did: [self, raised, value, solver]; solver is
\* the <<positions, tdoas>> handed to localize, or None when it was not called.
EstimateLocationFrom(self, algorithm, cc_threshold_arg, min_n_receivers, speed_of_sound) ==
    LET cc_threshold == IF cc_threshold_arg = None THEN self.cc_threshold
                        ELSE cc_threshold_arg
        mask == KeptMask(self, cc_threshold)
        tdoas == Masked(self.tdoas, mask)
        positions == Masked(self.receiver_positions, mask)
        filtered == AfterFilter(self, tdoas, positions)
    IN  IF NotEnoughReceivers(Len(tdoas), min_n_receivers)
        THEN RaiseInsufficient(filtered)
        ELSE
        LET located == localize(positions, tdoas, algorithm, speed_of_sound)
        IN  IF located.raised # ""
            THEN [self |-> filtered, raised |-> located.raised,
                  value |-> None, solver |-> <<positions, tdoas>>]
            ELSE
            LET withPosition == [filtered EXCEPT !.position_estimate = located.value]
                rms == RmsOfEstimate(withPosition, positions, tdoas, speed_of_sound)
            IN  [self |-> [rms[1] EXCEPT !.residual_rms = rms[2]],
                 raised |-> "",
                 value |-> located.value,
                 solver |-> <<positions, tdoas>>]

(***************************************************************************)
(* SynchronizedRecorderArray: the tables                                   *)
(*                                                                         *)
(* A file identifier is <<kind, name>>: a str or a pathlib.Path naming a   *)
(* file.  file_coords is a sequence of rows [file, position] with distinct *)
(* files (the index); detections is [columns, rows], a row being           *)
(* [file, start_time, end_time, values] with one 0/1 value per column.     *)
(***************************************************************************)
StrFile(name) == <<"str", name>>
PathFile(name) == <<"path", name>>
\* str(file)
Str(file) == <<"str", file[2]>>

\* an error whose message names the key that was looked up
RaiseKey(e, key) == [raised |-> e, value |-> <<key>>, warnings |-> {}]

\* the elements of a sequence in their order of first appearance (unique())
RECURSIVE Unique(_)
Unique(q) ==
    IF q = <<>> THEN <<>>
    ELSE LET front == Unique(SubSeq(q, 1, Len(q) - 1))
             last == q[Len(q)]
         IN  IF \E i \in 1..Len(front) : front[i] = last THEN front
             ELSE Append(front, last)

RECURSIVE Flatten(_)
Flatten(qq) == IF qq = <<>> THEN <<>> ELSE qq[1] \o Flatten(Tail(qq))

\* a finite set of integers in decreasing order
RECURSIVE SortedDescending(_)
SortedDescending(S) ==
    IF S = {} THEN <<>>
    ELSE LET greatest == CHOOSE x \in S : \A y \in S : y <= x
         IN  <<greatest>> \o SortedDescending(S \ {greatest})

\* a finite set of integers in increasing order
RECURSIVE Sorted(_)
Sorted(S) ==
    IF S = {} THEN <<>>
    ELSE LET least == CHOOSE x \in S : \A y \in S : x <= y
         IN  <<least>> \o Sorted(S \ {least})

Range(q) == {q[i] : i \in 1..Len(q)}

\* file_coords.index
CoordIndex(file_coords) == Tuple([i \in 1..Len(file_coords) |-> file_coords[i].file])
\* file_coords.loc[file], for a file of the index
CoordOf(file_coords, file) ==
    LET i == CHOOSE j \in 1..Len(file_coords) : file_coords[j].file = file
    IN  file_coords[i].position

\* a check that finds every file to have coordinates
CheckNoFiles(file_coords, detections) == <<>>

\* the files of detections.index whose str() is not in file_coords.index
check_files_missing_coordinates(file_coords, detections) ==
    LET files == Unique(Tuple([i \in 1..Len(detections.rows) |-> detections.rows[i].file]))
        index == Range(CoordIndex(file_coords))
    IN  SelectSeq(files, LAMBDA file : Str(file) \notin index)

\* a test that takes every recorder to be close enough
WithinAlways(d, r_max) == TRUE

\* a test that leaves out a recorder at the distance r_max itself
WithinStrictly(d, r_max) == RootLt(Root(SumSq(d)), r_max)

\* r <= r_max for the distance r = np.linalg.norm(d)
WithinRange(d, r_max) == RootLe(Root(SumSq(d)), r_max)

\* a list of nearby files that does not leave out the file itself
NearbyFilesWithSelf(file_coords, r_max, aru) ==
    LET reference_receiver == CoordOf(file_coords, aru)
        close == SelectSeq(file_coords,
                           LAMBDA row : WithinRange(VSub(row.position, reference_receiver),
                                                    r_max))
    IN  CoordIndex(close)

\* make_nearby_files_dict(r_max)[aru]
NearbyFiles(file_coords, r_max, aru) ==
    LET reference_receiver == CoordOf(file_coords, aru)
        other_receivers == SelectSeq(file_coords, LAMBDA row : row.file # aru)
        close == SelectSeq(other_receivers,
                           LAMBDA row : WithinRange(VSub(row.position, reference_receiver),
                                                    r_max))
    IN  CoordIndex(close)

\* the dictionary, as a function on the files of the index
make_nearby_files_dict(file_coords, r_max) ==
    [aru \in Range(CoordIndex(file_coords)) |-> NearbyFiles(file_coords, r_max, aru)]

\* det_cls: the rows of detections with a positive value in column c
PositiveRows(detections, c) ==
    SelectSeq(detections.rows, LAMBDA row : row.values[c] > 0)

\* One pass of the loop "for ref_file in files_w_dets" of class column c and
\* time window time_i: the events it appends, or the KeyError of the lookup
\* nearby_files_dict[ref_file].
\* a lookup that takes a file without coordinates to have no neighbours
NearbyLookupOrEmpty(nearby_files_dict, ref_file) ==
    IF ref_file \in DOMAIN nearby_files_dict THEN Return(nearby_files_dict[ref_file])
    ELSE Return(<<>>)

\* nearby_files_dict[ref_file]
NearbyLookup(nearby_files_dict, ref_file) ==
    IF ref_file \in DOMAIN nearby_files_dict THEN Return(nearby_files_dict[ref_file])
    ELSE RaiseKey("KeyError", ref_file)

\* the body of the innermost loop, for one reference file
RefFileStep(file_coords, nearby_files_dict, detections, c, time_i, dets_at_time_i, files_w_dets, ref_file, min_n_receivers) ==
    IF NearbyLookup(nearby_files_dict, ref_file).raised # ""
    THEN NearbyLookup(nearby_files_dict, ref_file)
    ELSE
    LET close_receivers == NearbyLookup(nearby_files_dict, ref_file).value
        close_det_files == SelectSeq(files_w_dets,
                                     LAMBDA f : f \in Range(close_receivers))
    IN  IF Len(close_det_files) + 1 >= min_n_receivers
        THEN
        LET receiver_files == <<ref_file>> \o close_det_files
            receiver_positions ==
                Tuple([i \in 1..Len(receiver_files) |->
                          CoordOf(file_coords, receiver_files[i])])
            clip == SelectSeq(dets_at_time_i, LAMBDA row : row.file = ref_file)
            clip_end == clip[1].end_time
        IN  Return(<<SpatialEvent(receiver_files, receiver_positions, time_i,
                                  clip_end - time_i, detections.columns[c],
                                  None, None, None)>>)
        ELSE Return(<<>>)

\* the passes of the three nested loops of create_candidate_events, in order:
\* <<c, time_i, ref_file>>
LoopPasses(detections) ==
    Flatten(Tuple([c \in 1..Len(detections.columns) |->
        LET det_cls == PositiveRows(detections, c)
            times == Sorted({det_cls[i].start_time : i \in 1..Len(det_cls)})
        IN  Flatten(Tuple([t \in 1..Len(times) |->
                LET dets_at_time_i ==
                        SelectSeq(det_cls, LAMBDA row : row.start_time = times[t])
                    files_w_dets ==
                        Unique(Tuple([i \in 1..Len(dets_at_time_i) |->
                                         dets_at_time_i[i].file]))
                IN  Tuple([r \in 1..Len(files_w_dets) |->
                              <<c, times[t], files_w_dets[r]>>])]))]))

PassResult(file_coords, nearby_files_dict, detections, pass, min_n_receivers) ==
    LET c == pass[1]
        time_i == pass[2]
        dets_at_time_i == SelectSeq(PositiveRows(detections, c),
                                    LAMBDA row : row.start_time = time_i)
        files_w_dets == Unique(Tuple([i \in 1..Len(dets_at_time_i) |->
                                         dets_at_time_i[i].file]))
    IN  RefFileStep(file_coords, nearby_files_dict, detections, c, time_i,
                    dets_at_time_i, files_w_dets, pass[3], min_n_receivers)

\* SynchronizedRecorderArray.create_candidate_events: the list of events, or
\* the first error a pass of the loops raises
create_candidate_events(file_coords, detections, min_n_receivers, max_receiver_dist) ==
    LET nearby_files_dict == make_nearby_files_dict(file_coords, max_receiver_dist)
        passes == LoopPasses(detections)
        results == Tuple([i \in 1..Len(passes) |->
                             PassResult(file_coords, nearby_files_dict, detections,
                                        passes[i], min_n_receivers)])
        failed == {i \in 1..Len(passes) : results[i].raised # ""}
    IN  IF failed # {}
        THEN results[CHOOSE i \in failed : \A j \in failed : i <= j]
        ELSE Return(Flatten(Tuple([i \in 1..Len(passes) |-> results[i].value])))

(***************************************************************************)
(* Bounds and the inputs the operations are called with                    *)
(***************************************************************************)
\* the most positive detections in a detections table given to localize_detections
MaxDetections == 3

Speed == Int2F(SPEED_OF_SOUND)
Delay(k) == Rat(k, SPEED_OF_SOUND)
Position(x, y) == <<Int2F(x), Int2F(y)>>

Classes == <<"A", "B">>
FileA == StrFile("a.wav")
FileB == StrFile("b.wav")
FileC == StrFile("c.wav")
\* the same file as FileA, named by a pathlib.Path
PathA == PathFile("a.wav")

CoordRow(file, x, y) == [file |-> file, position |-> Position(x, y)]
\* receivers on a line, so that every distance to an estimate is rational
CoordTables ==
    { <<CoordRow(FileA, 0, 0), CoordRow(FileB, 1, 0), CoordRow(FileC, 3, 0)>>,
      <<CoordRow(FileA, 0, 0), CoordRow(FileB, 1, 0)>> }

\* what audio.estimate_delay can return for one receiver, <<tdoa, cc_max>>: no
\* correlation, or a correlation of 2 at a delay of some whole units of
\* 1/SPEED_OF_SOUND seconds
DelayUnits == {0, 1}
XcValues == {<<Delay(0), Zero>>} \cup {<<Delay(k), Int2F(2)>> : k \in DelayUnits}

DetectionRow(file, start_time, values) ==
    [file |-> file, start_time |-> start_time, end_time |-> start_time + 1,
     values |-> values]
CountPositive(rows) ==
    Cardinality({<<i, c>> \in (1..Len(rows)) \X (1..Len(Classes)) : rows[i].values[c] > 0})
BitPairs == {0, 1} \X {0, 1}
\* one clip per file, all at the same time, with at most MaxDetections detections
DetectionTables ==
    { t \in { [columns |-> Classes,
               rows |-> <<DetectionRow(FileA, 0, va), DetectionRow(FileB, 0, vb),
                          DetectionRow(FileC, 0, vc)>>] :
               va \in BitPairs, vb \in BitPairs, vc \in BitPairs } :
        CountPositive(t.rows) <= MaxDetections }

\* bandpass_ranges: None, or a dictionary from class names to [low, high]
NoBandpassRanges == [is_none |-> TRUE, dict |-> <<>>]
BandpassDict(d) == [is_none |-> FALSE, dict |-> d]
BandpassRanges ==
    {NoBandpassRanges} \cup
    {BandpassDict([c \in K |-> <<1000, 2000>>]) : K \in {{"A"}, {"A", "B"}}}

\* the arguments of a call of localize_detections (cc_filter and max_delay are
\* handed through to audio.estimate_delay and are left out)
CallArguments ==
    [detections : DetectionTables,
     max_receiver_dist : {Int2F(2)},
     min_n_receivers : {2, 3},
     localization_algorithm : {"gillette", "soundfinder", "kalman"},
     cc_threshold : {DEFAULT_CC_THRESHOLD, One},
     bandpass_ranges : BandpassRanges,
     residual_threshold : {Zero, Inf}]

(***************************************************************************)
(* State                                                                   *)
(***************************************************************************)
VARIABLES
    file_coords,        \* SynchronizedRecorderArray.file_coords
    pc,                 \* where the running call is
    args,               \* the arguments of the running call
    candidate_events,   \* the SpatialEvent objects of the running call
    cursor,             \* index in candidate_events of the loop's event
    localized_events,   \* indices in candidate_events, in order of appending
    unlocalized_events,
    result,             \* what the last call returned or raised
    warned,             \* the warnings issued so far
    audio_loads,        \* number of Audio.from_file calls so far
    bandpassed,         \* the bandpass_range of the last cross-correlation
    solver_calls,       \* number of calls of localize() so far
    solver_input,       \* <<positions, tdoas>> of the last call of localize()
    spatial_event,      \* a SpatialEvent whose methods are called directly
    calls               \* number of method calls made on event

vars == <<file_coords, pc, args, candidate_events, cursor, localized_events,
          unlocalized_events, result, warned, audio_loads, bandpassed,
          solver_calls, solver_input, spatial_event, calls>>

NoArguments == <<>>
NoResult == [raised |-> "", value |-> None, warnings |-> {}]

Init ==
    /\ file_coords \in CoordTables
    /\ pc = "idle"
    /\ args = NoArguments
    /\ candidate_events = <<>>
    /\ cursor = 0
    /\ localized_events = <<>>
    /\ unlocalized_events = <<>>
    /\ result = NoResult
    /\ warned = {}
    /\ audio_loads = 0
    /\ bandpassed = None
    /\ solver_calls = 0
    /\ solver_input = None
    /\ spatial_event = None
    /\ calls = 0

(***************************************************************************)
(* SynchronizedRecorderArray.localize_detections                           *)
(***************************************************************************)
\* the files named by the message of the UserWarning raised for files without
\* coordinates: the message is a fixed text
MissingCoordinatesError(files_missing_coordinates) ==
    [raised |-> "UserWarning", value |-> <<>>, warnings |-> {}]

\* set(bandpass_ranges.keys()) != set(detections.columns)
BandpassWarning(bandpass_ranges, detections) ==
    IF ~bandpass_ranges.is_none
       /\ DOMAIN bandpass_ranges.dict # Range(detections.columns)
    THEN {"Not all classes have corresponding bandpass ranges"}
    ELSE {}

\* a loop without the except clause
CaughtNever(raised) == FALSE

\* except InsufficientReceiversError
CaughtInLoop(raised) == raised = "InsufficientReceiversError"

\* an append that loses the event
AppendNothing(events, event) == events

\* localized_events.append(event), unlocalized_events.append(event)
AppendEvent(events, event) == Append(events, event)

\* a test that accepts whatever is not above the threshold
ResidualNotRejected(residual_rms, residual_threshold) ==
    ~RootLt(residual_threshold, residual_rms)

\* event.residual_rms < residual_threshold
ResidualAccepted(residual_rms, residual_threshold) ==
    RootLt(residual_rms, residual_threshold)

\* the call up to the loop: the checks and create_candidate_events
LocalizeDetectionsCall ==
    /\ pc = "idle"
    /\ \E a \in CallArguments :
        LET missing == check_files_missing_coordinates(file_coords, a.detections)
            created == create_candidate_events(file_coords, a.detections,
                                               a.min_n_receivers, a.max_receiver_dist)
        IN  /\ args' = a
            /\ localized_events' = <<>>
            /\ unlocalized_events' = <<>>
            /\ IF Len(missing) > 0
               THEN /\ pc' = "raised"
                    /\ result' = MissingCoordinatesError(missing)
                    /\ UNCHANGED <<candidate_events, cursor, warned>>
               ELSE /\ warned' = warned \cup BandpassWarning(a.bandpass_ranges, a.detections)
                    /\ IF created.raised # ""
                       THEN /\ pc' = "raised"
                            /\ result' = created
                            /\ UNCHANGED <<candidate_events, cursor>>
                       ELSE /\ pc' = "loop"
                            /\ candidate_events' = created.value
                            /\ cursor' = 1
                            /\ UNCHANGED result
    /\ UNCHANGED <<file_coords, audio_loads, bandpassed, solver_calls, solver_input>>
    /\ UNCHANGED <<spatial_event, calls>>

\* the head of a pass of the loop: the event's bandpass range is looked up and
\* event.estimate_delays cross-correlates every other receiver with the first
LoopEstimateDelays ==
    /\ pc = "loop"
    /\ cursor <= Len(candidate_events)
    /\ LET event == candidate_events[cursor]
           n == Len(event.receiver_files)
           ranges == args.bandpass_ranges
       IN  IF ~ranges.is_none /\ event.class_name \notin DOMAIN ranges.dict
           THEN /\ pc' = "raised"
                /\ result' = RaiseKey("KeyError", event.class_name)
                /\ UNCHANGED <<candidate_events, audio_loads, bandpassed>>
           ELSE \E xc \in [1..(n - 1) -> XcValues] :
                /\ pc' = "locate"
                /\ candidate_events' =
                       [candidate_events EXCEPT ![cursor] = EstimateDelaysLoop(event, xc)]
                /\ audio_loads' = audio_loads + n
                /\ bandpassed' = BandpassUsed(event, IF ranges.is_none THEN None
                                                      ELSE ranges.dict[event.class_name])
                /\ UNCHANGED result
    /\ UNCHANGED <<file_coords, args, cursor, localized_events, unlocalized_events,
                   warned, solver_calls, solver_input>>
    /\ UNCHANGED <<spatial_event, calls>>

\* a loop that catches the errors of event.estimate_delays
CaughtAroundDelaysAlways(raised) == TRUE

\* event.estimate_delays is called outside the try statement of the loop:
\* no except clause catches what it raises
CaughtAroundDelays(raised) == FALSE

\* Audio.from_file raises for one of the event's files: estimate_delays stops
\* before it assigns tdoas and cc_maxs, and nothing catches the error
LoopEstimateDelaysFails ==
    /\ pc = "loop"
    /\ cursor <= Len(candidate_events)
    /\ LET event == candidate_events[cursor]
           ranges == args.bandpass_ranges
       IN  /\ ranges.is_none \/ event.class_name \in DOMAIN ranges.dict
           /\ \E k \in 1..Len(event.receiver_files) :
                /\ audio_loads' = audio_loads + (k - 1)
                /\ IF CaughtAroundDelays("AudioError")
                   THEN /\ unlocalized_events' = AppendEvent(unlocalized_events, cursor)
                        /\ cursor' = cursor + 1
                        /\ pc' = "loop"
                        /\ UNCHANGED result
                   ELSE /\ result' = RaiseKey("AudioError", event.receiver_files[k])
                        /\ pc' = "raised"
                        /\ UNCHANGED <<cursor, unlocalized_events>>
    /\ UNCHANGED <<file_coords, args, candidate_events, localized_events,
                   warned, bandpassed, solver_calls, solver_input>>
    /\ UNCHANGED <<spatial_event, calls>>

\* the event as estimate_location finds it after its lines 132-135: with the
\* delays it holds, or with those of self.estimate_delays()
WithDelays(self) ==
    IF DelaysMissing(self)
    THEN {EstimateDelaysLoop(self, xc) :
             xc \in [1..(Len(self.receiver_files) - 1) -> XcValues]}
    ELSE {self}

\* the rest of the pass: event.estimate_location in its try, and the test of
\* the residual
LoopEstimateLocation ==
    /\ pc = "locate"
    /\ LET event == candidate_events[cursor]
       IN  \E self \in WithDelays(event) :
           \E out \in {EstimateLocationFrom(self, args.localization_algorithm,
                                            args.cc_threshold, args.min_n_receivers,
                                            Speed)} :
           /\ candidate_events' = [candidate_events EXCEPT ![cursor] = out.self]
           /\ IF DelaysMissing(event)
              THEN /\ audio_loads' = audio_loads + Len(event.receiver_files)
                   /\ bandpassed' = BandpassUsed(event, None)
              ELSE UNCHANGED <<audio_loads, bandpassed>>
           /\ IF out.solver = None
              THEN UNCHANGED <<solver_calls, solver_input>>
              ELSE /\ solver_calls' = solver_calls + 1
                   /\ solver_input' = out.solver
           /\ IF CaughtInLoop(out.raised)
              THEN /\ unlocalized_events' = AppendEvent(unlocalized_events, cursor)
                   /\ cursor' = cursor + 1
                   /\ pc' = "loop"
                   /\ UNCHANGED <<localized_events, result>>
              ELSE IF out.raised # ""
              THEN /\ pc' = "raised"
                   /\ result' = Raise(out.raised)
                   /\ UNCHANGED <<cursor, localized_events, unlocalized_events>>
              ELSE /\ IF ResidualAccepted(out.self.residual_rms, args.residual_threshold)
                      THEN /\ localized_events' = AppendEvent(localized_events, cursor)
                           /\ UNCHANGED unlocalized_events
                      ELSE /\ unlocalized_events' = AppendEvent(unlocalized_events, cursor)
                           /\ UNCHANGED localized_events
                   /\ cursor' = cursor + 1
                   /\ pc' = "loop"
                   /\ UNCHANGED result
    /\ UNCHANGED <<file_coords, args, warned>>
    /\ UNCHANGED <<spatial_event, calls>>

\* return localized_events, unlocalized_events
ReturnLists ==
    /\ pc = "loop"
    /\ cursor > Len(candidate_events)
    /\ pc' = "done"
    /\ result' = Return(<<localized_events, unlocalized_events>>)
    /\ UNCHANGED <<file_coords, args, candidate_events, cursor, localized_events,
                   unlocalized_events, warned, audio_loads, bandpassed,
                   solver_calls, solver_input>>
    /\ UNCHANGED <<spatial_event, calls>>

Next ==
    \/ LocalizeDetectionsCall
    \/ LoopEstimateDelays
    \/ LoopEstimateDelaysFails
    \/ LoopEstimateLocation
    \/ ReturnLists

Spec == Init /\ [][Next]_vars

(***************************************************************************)
(* A SpatialEvent on its own: its methods called directly, in any order    *)
(***************************************************************************)
MaxCalls == 2

Range1000 == <<1000, 2000>>
Range500 == <<500, 1500>>
EventReceivers == <<CoordRow(FileB, 1, 0), CoordRow(FileA, 0, 0), CoordRow(FileC, 3, 0)>>
FreshEvents ==
    { SpatialEvent(Tuple([i \in 1..Len(EventReceivers) |-> EventReceivers[i].file]),
                   Tuple([i \in 1..Len(EventReceivers) |-> EventReceivers[i].position]),
                   0, 1, "A", b, t, None) :
        b \in {None, Range1000}, t \in {None, One} }

InitEvent ==
    /\ file_coords = <<>>
    /\ pc = "event"
    /\ args = NoArguments
    /\ candidate_events = <<>>
    /\ cursor = 0
    /\ localized_events = <<>>
    /\ unlocalized_events = <<>>
    /\ result = NoResult
    /\ warned = {}
    /\ audio_loads = 0
    /\ bandpassed = None
    /\ solver_calls = 0
    /\ solver_input = None
    /\ spatial_event \in FreshEvents
    /\ calls = 0

\* event.estimate_delays(bandpass_range)
EstimateDelays ==
    /\ pc = "event"
    /\ calls < MaxCalls
    /\ \E bandpass_range \in {None, Range500} :
       \E xc \in [1..(Len(spatial_event.receiver_files) - 1) -> XcValues] :
        /\ args' = [op |-> "estimate_delays", bandpass_range |-> bandpass_range,
                    xc |-> xc]
        /\ spatial_event' = EstimateDelaysLoop(spatial_event, xc)
        /\ result' = Return(<<spatial_event'.tdoas, spatial_event'.cc_maxs>>)
        /\ bandpassed' = BandpassUsed(spatial_event, bandpass_range)
    /\ audio_loads' = audio_loads + Len(spatial_event.receiver_files)
    /\ calls' = calls + 1
    /\ UNCHANGED <<file_coords, pc, candidate_events, cursor, localized_events,
                   unlocalized_events, warned, solver_calls, solver_input>>

\* event.estimate_delays(), Audio.from_file raising for one of the files
EstimateDelaysFails ==
    /\ pc = "event"
    /\ calls < MaxCalls
    /\ \E k \in 1..Len(spatial_event.receiver_files) :
        /\ audio_loads' = audio_loads + (k - 1)
        /\ result' = RaiseKey("AudioError", spatial_event.receiver_files[k])
    /\ args' = [op |-> "estimate_delays", bandpass_range |-> None]
    /\ calls' = calls + 1
    /\ UNCHANGED <<file_coords, pc, candidate_events, cursor, localized_events,
                   unlocalized_events, warned, bandpassed, solver_calls,
                   solver_input, spatial_event>>

\* event.estimate_location(algorithm, cc_threshold, min_n_receivers)
EstimateLocation ==
    /\ pc = "event"
    /\ calls < MaxCalls
    /\ \E algorithm \in {"gillette", "soundfinder"}, cc_threshold \in {None, One},
          min_n_receivers \in {2, 3} :
       \E self \in WithDelays(spatial_event) :
       \E out \in {EstimateLocationFrom(self, algorithm, cc_threshold,
                                        min_n_receivers, Speed)} :
        /\ args' = [op |-> "estimate_location", algorithm |-> algorithm,
                    cc_threshold |-> cc_threshold,
                    min_n_receivers |-> min_n_receivers]
        /\ spatial_event' = out.self
        /\ result' = IF out.raised # "" THEN Raise(out.raised) ELSE Return(out.value)
        /\ IF out.solver = None
           THEN UNCHANGED <<solver_calls, solver_input>>
           ELSE /\ solver_calls' = solver_calls + 1
                /\ solver_input' = out.solver
        /\ IF DelaysMissing(spatial_event)
           THEN /\ audio_loads' = audio_loads + Len(spatial_event.receiver_files)
                /\ bandpassed' = BandpassUsed(spatial_event, None)
           ELSE UNCHANGED <<audio_loads, bandpassed>>
    /\ calls' = calls + 1
    /\ UNCHANGED <<file_coords, pc, candidate_events, cursor, localized_events,
                   unlocalized_events, warned>>

\* event.calculate_distance_residuals()
CalculateDistanceResiduals ==
    /\ pc = "event"
    /\ calls < MaxCalls
    /\ \E out \in {calculate_distance_residuals(spatial_event, Speed)} :
        /\ spatial_event' = out[1]
        /\ result' = Return(out[2])
    /\ args' = [op |-> "calculate_distance_residuals"]
    /\ calls' = calls + 1
    /\ UNCHANGED <<file_coords, pc, candidate_events, cursor, localized_events,
                   unlocalized_events, warned, audio_loads, bandpassed,
                   solver_calls, solver_input>>

\* event.calculate_residual_rms()
CalculateResidualRms ==
    /\ pc = "event"
    /\ calls < MaxCalls
    /\ \E out \in {calculate_residual_rms(spatial_event, Speed)} :
        /\ spatial_event' = out[1]
        /\ result' = Return(out[2])
    /\ args' = [op |-> "calculate_residual_rms"]
    /\ calls' = calls + 1
    /\ UNCHANGED <<file_coords, pc, candidate_events, cursor, localized_events,
                   unlocalized_events, warned, audio_loads, bandpassed,
                   solver_calls, solver_input>>

NextEvent ==
    \/ EstimateDelays
    \/ EstimateDelaysFails
    \/ EstimateLocation
    \/ CalculateDistanceResiduals
    \/ CalculateResidualRms

SpecEvent == InitEvent /\ [][NextEvent]_vars

(***************************************************************************)
(* create_candidate_events called directly on a SynchronizedRecorderArray  *)
(***************************************************************************)
\* a fourth recorder, between FileB and FileC
FileD == StrFile("d.wav")
\* the arrays create_candidate_events is called on: those of CoordTables, and
\* four recorders on a line of which FileD has the position (2, 0)
GroupCoordTables ==
    CoordTables \cup
    { <<CoordRow(FileA, 0, 0), CoordRow(FileB, 1, 0), CoordRow(FileC, 3, 0),
        CoordRow(FileD, 2, 0)>> }

\* clips of four files at times 0 and 5, the table not always sorted by time;
\* the first file may be named by a Path
GroupTables ==
    { [columns |-> Classes,
       rows |-> <<DetectionRow(first, ta, va), DetectionRow(FileB, tb, vb),
                  DetectionRow(FileC, 0, vc), DetectionRow(FileD, 0, vd)>>] :
        first \in {FileA, PathA}, ta \in {0, 5}, tb \in {0, 5},
        va \in BitPairs, vb \in BitPairs, vc \in BitPairs, vd \in BitPairs }

InitGroup ==
    /\ file_coords \in GroupCoordTables
    /\ pc = "idle"
    /\ args = NoArguments
    /\ candidate_events = <<>>
    /\ cursor = 0
    /\ localized_events = <<>>
    /\ unlocalized_events = <<>>
    /\ result = NoResult
    /\ warned = {}
    /\ audio_loads = 0
    /\ bandpassed = None
    /\ solver_calls = 0
    /\ solver_input = None
    /\ spatial_event = None
    /\ calls = 0

CreateCandidateEvents ==
    /\ pc = "idle"
    /\ \E detections \in GroupTables, min_n_receivers \in {2, 3},
          max_receiver_dist \in {Int2F(1), Int2F(2), Int2F(3)} :
        /\ args' = [op |-> "create_candidate_events", detections |-> detections,
                    min_n_receivers |-> min_n_receivers,
                    max_receiver_dist |-> max_receiver_dist]
        /\ result' = create_candidate_events(file_coords, detections,
                                             min_n_receivers, max_receiver_dist)
    /\ pc' = "grouped"
    /\ UNCHANGED <<file_coords, candidate_events, cursor, localized_events,
                   unlocalized_events, warned, audio_loads, bandpassed,
                   solver_calls, solver_input, spatial_event, calls>>

\* self.make_nearby_files_dict(r_max)
MakeNearbyFilesDict ==
    /\ pc = "idle"
    /\ \E r_max \in {Zero, Int2F(1), Int2F(2), Int2F(3)} :
        /\ args' = [op |-> "make_nearby_files_dict", r_max |-> r_max]
        /\ result' = Return(make_nearby_files_dict(file_coords, r_max))
    /\ pc' = "nearby"
    /\ UNCHANGED <<file_coords, candidate_events, cursor, localized_events,
                   unlocalized_events, warned, audio_loads, bandpassed,
                   solver_calls, solver_input, spatial_event, calls>>

NextGroup ==
    \/ CreateCandidateEvents
    \/ MakeNearbyFilesDict

SpecGroup == InitGroup /\ [][NextGroup]_vars

(***************************************************************************)
(* localize called directly                                                *)
(***************************************************************************)
\* tdoas are 0..MaxSolveDelay units of 1/SPEED_OF_SOUND seconds
MaxSolveDelay == 2

\* receivers on a line, on a right triangle, and on the corners of a square
SolveGeometries ==
    { <<Position(0, 0), Position(1, 0), Position(3, 0)>>,
      <<Position(0, 0), Position(4, 0), Position(0, 3)>>,
      <<Position(0, 0), Position(2, 0), Position(0, 2), Position(2, 2)>> }

Localize ==
    /\ pc = "idle"
    /\ \E receiver_positions \in SolveGeometries,
          algorithm \in {"gillette", "soundfinder", "kalman"} :
       \E units \in [1..Len(receiver_positions) -> 0..MaxSolveDelay] :
       \E tdoas \in {Tuple([i \in 1..Len(units) |-> Delay(units[i])])} :
        /\ args' = [op |-> "localize", receiver_positions |-> receiver_positions,
                    tdoas |-> tdoas, algorithm |-> algorithm]
        /\ result' = localize(receiver_positions, tdoas, algorithm, Speed)
    /\ pc' = "solved"
    /\ UNCHANGED <<file_coords, candidate_events, cursor, localized_events,
                   unlocalized_events, warned, audio_loads, bandpassed,
                   solver_calls, solver_input, spatial_event, calls>>

\* position estimates have whole coordinates from 0 to MaxCoordinate
MaxCoordinate == 4

\* the estimates residuals are calculated for: the points at a rational
\* distance from every receiver, and the NaN output of soundfinder_localize
ResidualEstimates(receiver_positions) ==
    { p \in { Position(x, y) : x \in 0..MaxCoordinate, y \in 0..MaxCoordinate } :
        \A i \in 1..Len(receiver_positions) :
            HasRationalRoot(SumSq(VSub(receiver_positions[i], p))) }
    \cup {NanColumn(2)}

\* calculate_tdoa_residuals(receiver_positions, tdoas, position_estimate, speed_of_sound)
CalculateTdoaResiduals ==
    /\ pc = "idle"
    /\ \E receiver_positions \in SolveGeometries :
       \E units \in [1..Len(receiver_positions) -> 0..MaxSolveDelay],
          position_estimate \in ResidualEstimates(receiver_positions) :
       \E tdoas \in {Tuple([i \in 1..Len(units) |-> Delay(units[i])])} :
        /\ args' = [op |-> "calculate_tdoa_residuals",
                    receiver_positions |-> receiver_positions,
                    tdoas |-> tdoas, position_estimate |-> position_estimate]
        /\ result' = Return(calculate_tdoa_residuals(receiver_positions, tdoas,
                                                     position_estimate, Speed))
    /\ pc' = "residuals"
    /\ UNCHANGED <<file_coords, candidate_events, cursor, localized_events,
                   unlocalized_events, warned, audio_loads, bandpassed,
                   solver_calls, solver_input, spatial_event, calls>>

\* four receivers on the corners of a 3 x 4 rectangle, the reference receiver
\* on one corner or another, and on the corners of a square of 10 x 10
TruthGeometries ==
    { <<Position(0, 0), Position(3, 0), Position(0, 4), Position(3, 4)>>,
      <<Position(3, 4), Position(0, 0), Position(3, 0), Position(0, 4)>>,
      <<Position(0, 0), Position(10, 0), Position(0, 10), Position(10, 10)>> }

\* the mean of the receiver positions
Centre(receiver_positions) ==
    Tuple([j \in 1..Len(receiver_positions[1]) |->
              Mean(Tuple([i \in 1..Len(receiver_positions) |-> receiver_positions[i][j]]))])

\* a point whose distances to the receivers are floats of the model: all
\* rational (or not finite), or all the same number
DistancesRepresentable(receiver_positions, p) ==
    LET squares == Tuple([i \in 1..Len(receiver_positions) |->
                            DistanceSquaredTo(receiver_positions[i], p)])
    IN  \/ \A i \in 1..Len(squares) : ~IsFinite(squares[i]) \/ HasRationalRoot(squares[i])
        \/ \A i \in 1..Len(squares) : squares[i] = squares[1]

\* the sources of a sound: the centre of the receivers, and the points with
\* coordinates of whole halves from 0 to MaxCoordinate, where their distances
\* to the receivers are floats of the model
TruthSources(receiver_positions) ==
    { p \in { <<Rat(x, 2), Rat(y, 2)>> : x \in 0..(2 * MaxCoordinate),
                                         y \in 0..(2 * MaxCoordinate) }
             \cup {Centre(receiver_positions)} :
        DistancesRepresentable(receiver_positions, p) }

\* the time differences of arrival of a sound from source, relative to the
\* first receiver: (dist(receiver_i, source) - dist(receiver_0, source)) / speed
TruthTdoas(receiver_positions, source, speed_of_sound) ==
    Tuple([i \in 1..Len(receiver_positions) |->
              IF SameIrrational(SumSq(VSub(receiver_positions[i], source)),
                                SumSq(VSub(receiver_positions[1], source)))
              THEN Zero
              ELSE FDiv(FSub(Norm(VSub(receiver_positions[i], source)),
                             Norm(VSub(receiver_positions[1], source))),
                        speed_of_sound)])

\* localize(receiver_positions, tdoas, algorithm) on the tdoas of a known source
LocalizeGroundTruth ==
    /\ pc = "idle"
    /\ \E receiver_positions \in TruthGeometries, algorithm \in {"gillette", "soundfinder"} :
       \E source \in TruthSources(receiver_positions) :
       \E tdoas \in {TruthTdoas(receiver_positions, source, Speed)} :
        /\ args' = [op |-> "localize", receiver_positions |-> receiver_positions,
                    tdoas |-> tdoas, algorithm |-> algorithm, source |-> source]
        /\ result' = localize(receiver_positions, tdoas, algorithm, Speed)
    /\ pc' = "truth"
    /\ UNCHANGED <<file_coords, candidate_events, cursor, localized_events,
                   unlocalized_events, warned, audio_loads, bandpassed,
                   solver_calls, solver_input, spatial_event, calls>>

\* calculate_tdoa_residuals at the estimate localize has returned for the
\* tdoas of a known source
ResidualsAtEstimate ==
    /\ pc = "truth"
    /\ result.raised = ""
    /\ DistancesRepresentable(args.receiver_positions, result.value)
    /\ args' = [op |-> "calculate_tdoa_residuals",
                receiver_positions |-> args.receiver_positions,
                tdoas |-> args.tdoas, algorithm |-> args.algorithm,
                source |-> args.source, position_estimate |-> result.value]
    /\ result' = Return(calculate_tdoa_residuals(args.receiver_positions, args.tdoas,
                                                 result.value, Speed))
    /\ pc' = "truth_residuals"
    /\ UNCHANGED <<file_coords, candidate_events, cursor, localized_events,
                   unlocalized_events, warned, audio_loads, bandpassed,
                   solver_calls, solver_input, spatial_event, calls>>

NextSolve ==
    \/ Localize
    \/ CalculateTdoaResiduals
    \/ LocalizeGroundTruth
    \/ ResidualsAtEstimate

SpecSolve == Init /\ [][NextSolve]_vars

(***************************************************************************)
(* Properties                                                              *)
(***************************************************************************)
Occurrences(list, i) == Cardinality({k \in 1..Len(list) : list[k] = i})
InList(list, i) == \E k \in 1..Len(list) : list[k] = i
\* event i of the running call has been through its pass of the loop
Classified(i) == i < cursor \/ pc = "done"
\* the receivers of event e whose cc_max passes estimate_location's filter
Survivors(e, cc_threshold) == Len(Masked(e.tdoas, KeptMask(e, cc_threshold)))
\* estimate_location of event e of the running call signals
\* InsufficientReceiversError
SignalsInsufficient(e) ==
    /\ e.tdoas # None
    /\ Survivors(e, args.cc_threshold) < args.min_n_receivers

\* C1: when localize_detections returns, every candidate event made by
\* create_candidate_events is exactly once in exactly one of the two returned
\* lists, whose lengths sum to the number of candidate events.
C1_Partition ==
    pc = "done" =>
        /\ Len(candidate_events) =
               Len(create_candidate_events(file_coords, args.detections,
                       args.min_n_receivers, args.max_receiver_dist).value)
        /\ \A i \in 1..Len(candidate_events) :
               Occurrences(result.value[1], i) + Occurrences(result.value[2], i) = 1
        /\ Len(result.value[1]) + Len(result.value[2]) = Len(candidate_events)
C1_Witness ==
    pc = "done" /\ Len(result.value[1]) > 0 /\ Len(result.value[2]) > 0

\* C2: an InsufficientReceiversError of one event's estimate_location never
\* leaves localize_detections; the event is appended to the unlocalized list,
\* and the events after it are processed and classified too.
C2_InsufficientContinues ==
    /\ result.raised # "InsufficientReceiversError"
    /\ \A i \in 1..Len(candidate_events) :
           (Classified(i) /\ SignalsInsufficient(candidate_events[i]))
               => /\ InList(unlocalized_events, i)
                  /\ ~InList(localized_events, i)
    /\ pc = "done" =>
           \A i \in 1..Len(candidate_events) :
               candidate_events[i].tdoas # None
C2_Witness ==
    /\ pc = "done"
    /\ \E i, j \in 1..Len(candidate_events) :
           /\ i < j
           /\ SignalsInsufficient(candidate_events[i])
           /\ InList(unlocalized_events, i)
           /\ InList(localized_events, j)

\* the threshold estimate_location filters with in its last call
ThresholdOfCall(before) ==
    IF args.cc_threshold = None THEN before.cc_threshold ELSE args.cc_threshold

\* C3: an estimate_location call that leaves fewer than min_n_receivers
\* receivers after the cc filter raises InsufficientReceiversError, does not
\* call the solver, and leaves position_estimate and residual_rms as they were.
C3_InsufficientLeavesEstimate ==
    [][(/\ calls' = calls + 1
        /\ args'.op = "estimate_location"
        /\ Survivors(spatial_event',
                     IF args'.cc_threshold = None THEN spatial_event.cc_threshold
                     ELSE args'.cc_threshold) < args'.min_n_receivers)
       => (/\ result'.raised = "InsufficientReceiversError"
           /\ solver_calls' = solver_calls
           /\ solver_input' = solver_input
           /\ spatial_event'.position_estimate = spatial_event.position_estimate
           /\ spatial_event'.residual_rms = spatial_event.residual_rms)]_vars
C3_Witness ==
    /\ calls = 2
    /\ args.op = "estimate_location"
    /\ result.raised = "InsufficientReceiversError"
    /\ spatial_event.position_estimate # None
    /\ spatial_event.residual_rms # None
    /\ solver_calls = 1

\* C4: an event whose location was estimated is in the localized list if and
\* only if residual_rms <= residual_threshold, equality included.
C4_AcceptedIffNotAbove ==
    \A i \in 1..Len(candidate_events) :
        (Classified(i) /\ candidate_events[i].residual_rms # None)
            => (InList(localized_events, i)
                    <=> RootLe(candidate_events[i].residual_rms,
                               args.residual_threshold))

\* C5: estimate_location with a cc threshold t hands receiver i to the solver
\* if and only if cc_maxs[i] >= t, equality included.
C5_KeptIffNotBelow ==
    (/\ calls > 0
     /\ args.op = "estimate_location"
     /\ result.raised # "InsufficientReceiversError"
     /\ ThresholdOfCall(spatial_event) # None)
    => LET atLeast == Tuple([i \in 1..Len(spatial_event.cc_maxs) |->
                                FLe(ThresholdOfCall(spatial_event),
                                    spatial_event.cc_maxs[i])])
       IN  solver_input = <<Masked(spatial_event.receiver_positions, atLeast),
                            Masked(spatial_event.tdoas, atLeast)>>

\* C6: with the default cc_threshold no event is rejected for insufficient
\* receivers: every event of the unlocalized list has a position estimate.
C6_DefaultDiscardsNothing ==
    (pc # "idle" /\ args.cc_threshold = DEFAULT_CC_THRESHOLD)
    => \A k \in 1..Len(unlocalized_events) :
           candidate_events[unlocalized_events[k]].position_estimate # None

\* the files of the detections of the running call without a row in file_coords
FilesWithoutCoordinates ==
    { args.detections.rows[r].file : r \in 1..Len(args.detections.rows) }
        \ { Str(file_coords[c].file) : c \in 1..Len(file_coords) }
FailedBeforeAnyWork ==
    /\ pc = "raised"
    /\ candidate_events = <<>>
    /\ audio_loads = 0
    /\ solver_calls = 0

\* C7 as stated: a detections table with a file that has no row in file_coords
\* makes localize_detections fail before any candidate event is built or audio
\* loaded, with an error that names the missing files.
C7_FailsNamingMissingFiles ==
    (pc # "idle" /\ FilesWithoutCoordinates # {})
    => (FailedBeforeAnyWork /\ Range(result.value) = FilesWithoutCoordinates)
\* C7: a detections table with a file that has no row in file_coords makes
\* localize_detections fail before any candidate event is built or audio
\* loaded, by raising a UserWarning whose message is a fixed text that names
\* no file.
C7_FailsBeforeAnyWork ==
    (pc # "idle" /\ FilesWithoutCoordinates # {})
    => (FailedBeforeAnyWork /\ result.raised = "UserWarning" /\ result.value = <<>>)
C7_Witness ==
    /\ pc = "raised"
    /\ result.raised = "UserWarning"
    /\ FileC \in FilesWithoutCoordinates

\* the files of the rows of the grouped table, and of its rows with a detection
RowFiles == { args.detections.rows[r].file : r \in 1..Len(args.detections.rows) }
DetectingFiles ==
    { args.detections.rows[r].file :
        r \in { q \in 1..Len(args.detections.rows) :
                  \E c \in 1..Len(args.detections.columns) :
                      args.detections.rows[q].values[c] > 0 } }
CoordinateKeys == { file_coords[c].file : c \in 1..Len(file_coords) }
\* the files of the rows that file_coords has no entry for, under either name
RowFilesWithoutCoordinates == { f \in RowFiles : Str(f) \notin CoordinateKeys }

\* C8 as stated: create_candidate_events fails, with an error that lists the
\* offending files, whenever some row's file has no entry in file_coords,
\* whether or not the row holds a detection.
C8_FailsForAnyRow ==
    (pc = "grouped" /\ RowFilesWithoutCoordinates # {})
    => (result.raised # "" /\ Range(result.value) = RowFilesWithoutCoordinates)
\* C8: create_candidate_events fails if and only if some file with a positive
\* detection is no key of file_coords, and then with a KeyError that names one
\* such file; files without coordinates that have no positive detection are
\* passed over and the candidate events are returned.
C8_FailsOnlyForDetectingFiles ==
    pc = "grouped" =>
        IF DetectingFiles \subseteq CoordinateKeys
        THEN result.raised = ""
        ELSE /\ result.raised = "KeyError"
             /\ Len(result.value) = 1
             /\ result.value[1] \in DetectingFiles \ CoordinateKeys
C8_Witness ==
    /\ pc = "grouped"
    /\ RowFilesWithoutCoordinates # {}
    /\ result.raised = ""
    /\ Len(result.value) > 0

\* C9: a bandpass_ranges without an entry for some class only gives a warning:
\* localize_detections does not fail on the lookup of an event's class.
C9_MissingClassOnlyWarns ==
    (pc # "idle" /\ ~args.bandpass_ranges.is_none)
    => ~(pc = "raised" /\ result.raised = "KeyError")

\* C10: localize raises ValueError and returns nothing for every algorithm name
\* other than "gillette" and "soundfinder"; for these two it returns exactly
\* what gillette_localize and soundfinder_localize return.
C10_Dispatch ==
    pc = "solved" =>
        IF args.algorithm = "gillette"
        THEN result = gillette_localize(args.receiver_positions, args.tdoas, Speed)
        ELSE IF args.algorithm = "soundfinder"
        THEN result = soundfinder_localize(args.receiver_positions, args.tdoas, Speed)
        ELSE result.raised = "ValueError" /\ result.value = None
C10_Witness ==
    /\ pc = "solved"
    /\ args.algorithm = "kalman"
    /\ result.raised = "ValueError"

\* the algorithm names localize() knows
KnownAlgorithms == {"gillette", "soundfinder"}

\* C11: a localize_detections call with an unknown localization_algorithm (and
\* a coordinate for every file) ends by raising ValueError, whatever its
\* candidate events are, and before any audio is loaded.
C11_UnknownAlgorithmFailsAtOnce ==
    (/\ pc \in {"done", "raised"}
     /\ args.localization_algorithm \notin KnownAlgorithms
     /\ FilesWithoutCoordinates = {})
    => (pc = "raised" /\ result.raised = "ValueError" /\ audio_loads = 0)

\* C12: gillette_localize raises ValueError, and returns nothing, exactly when
\* none of the arrival times is zero; with a zero arrival time it returns an
\* estimate.
C12_GilletteNeedsReference ==
    (pc = "solved" /\ args.algorithm = "gillette")
    => IF \E i \in 1..Len(args.tdoas) : args.tdoas[i] = Zero
       THEN result.raised = ""
       ELSE result.raised = "ValueError" /\ result.value = None
C12_Witness ==
    /\ pc = "solved"
    /\ args.algorithm = "gillette"
    /\ \A i \in 1..Len(args.tdoas) : args.tdoas[i] # Zero
    /\ result.raised = "ValueError"

\* the files with a positive detection of class column c at start time t
DetectingAt(c, t) ==
    { args.detections.rows[r].file :
        r \in { q \in 1..Len(args.detections.rows) :
                  /\ args.detections.rows[q].values[c] > 0
                  /\ args.detections.rows[q].start_time = t } }
\* the distance between the recorders of two files of file_coords
Apart(f, g) == Root(SumSq(VSub(CoordOf(file_coords, f), CoordOf(file_coords, g))))
\* the candidate events of class column c and start time t
EventsOf(c, t) ==
    { i \in 1..Len(result.value) :
        /\ result.value[i].class_name = args.detections.columns[c]
        /\ result.value[i].start_time = t }
StartTimes == { args.detections.rows[r].start_time : r \in 1..Len(args.detections.rows) }

\* C13: when the k files detecting a class in a time window all have
\* coordinates and are pairwise within max_receiver_dist, and
\* min_n_receivers <= k, create_candidate_events makes exactly k events for
\* that class and window, one per reference file, each with its reference
\* first and exactly the other k-1 files after it.
C13_OneEventPerReference ==
    (pc = "grouped" /\ result.raised = "")
    => \A c \in 1..Len(args.detections.columns), t \in StartTimes :
         LET D == DetectingAt(c, t)
         IN  (/\ D # {}
              /\ D \subseteq CoordinateKeys
              /\ \A f, g \in D : RootLe(Apart(f, g), args.max_receiver_dist)
              /\ args.min_n_receivers <= Cardinality(D))
             => /\ Cardinality(EventsOf(c, t)) = Cardinality(D)
                /\ \A r \in D : \E i \in EventsOf(c, t) :
                       result.value[i].receiver_files[1] = r
                /\ \A i \in EventsOf(c, t) :
                       /\ Len(result.value[i].receiver_files) = Cardinality(D)
                       /\ Range(result.value[i].receiver_files) = D
C13_Witness ==
    /\ pc = "grouped"
    /\ result.raised = ""
    /\ args.min_n_receivers = 3
    /\ \E c \in 1..Len(args.detections.columns) :
         /\ Cardinality(DetectingAt(c, 0)) = 4
         /\ DetectingAt(c, 0) \subseteq CoordinateKeys
         /\ \A f, g \in DetectingAt(c, 0) : RootLe(Apart(f, g), args.max_receiver_dist)
         /\ Cardinality(EventsOf(c, 0)) = 4

\* the first row of the detections table that is of file f
FirstRow(f) ==
    CHOOSE q \in 1..Len(args.detections.rows) :
        /\ args.detections.rows[q].file = f
        /\ \A p \in 1..(q - 1) : args.detections.rows[p].file # f
\* the files other than r that detect class column c at time t and whose
\* recorder is within max_receiver_dist of r's
MatchesOf(c, t, r) ==
    { f \in DetectingAt(c, t) :
        /\ f # r
        /\ f \in CoordinateKeys
        /\ RootLe(Apart(f, r), args.max_receiver_dist) }
\* the candidate events of class column c and time t with reference file r
EventsWithReference(c, t, r) ==
    { i \in EventsOf(c, t) : result.value[i].receiver_files[1] = r }

\* C14: for every class, time window and file r detecting the class in the
\* window, create_candidate_events makes one event with reference r if the
\* detecting files near r, plus one, are at least min_n_receivers, and none
\* otherwise; the event lists r and then exactly those files, in the order of
\* the table, never r again, with the file_coords row of each as its position.
C14_EventIffEnoughNearby ==
    (pc = "grouped" /\ result.raised = "")
    => \A c \in 1..Len(args.detections.columns), t \in StartTimes :
       \A r \in DetectingAt(c, t) :
         IF Cardinality(MatchesOf(c, t, r)) + 1 >= args.min_n_receivers
         THEN /\ Cardinality(EventsWithReference(c, t, r)) = 1
              /\ \A i \in EventsWithReference(c, t, r) :
                   LET e == result.value[i]
                       n == Len(e.receiver_files)
                   IN  /\ n = Cardinality(MatchesOf(c, t, r)) + 1
                       /\ { e.receiver_files[k] : k \in 2..n } = MatchesOf(c, t, r)
                       /\ \A k \in 2..(n - 1) :
                              FirstRow(e.receiver_files[k]) < FirstRow(e.receiver_files[k + 1])
                       /\ Len(e.receiver_positions) = n
                       /\ \A k \in 1..n :
                              e.receiver_positions[k] = CoordOf(file_coords, e.receiver_files[k])
         ELSE EventsWithReference(c, t, r) = {}
C14_Witness ==
    /\ pc = "grouped"
    /\ result.raised = ""
    /\ \E c \in 1..Len(args.detections.columns) :
       \E r, s \in DetectingAt(c, 0) :
         /\ EventsWithReference(c, 0, r) = {}
         /\ \E i \in EventsWithReference(c, 0, s) :
                Len(result.value[i].receiver_files) = 3
         /\ Cardinality(DetectingAt(c, 0)) = 4

\* the class column an event was made for
ColumnOf(e) ==
    CHOOSE c \in 1..Len(args.detections.columns) :
        args.detections.columns[c] = e.class_name
\* the first row of the table with a positive detection of column c at time t
FirstRowAt(c, t) ==
    CHOOSE q \in 1..Len(args.detections.rows) :
        /\ args.detections.rows[q].values[c] > 0
        /\ args.detections.rows[q].start_time = t
        /\ \A p \in 1..(q - 1) :
               ~(/\ args.detections.rows[p].values[c] > 0
                 /\ args.detections.rows[p].start_time = t)
\* a < b in the lexicographic order of triples of integers
LexLess(a, b) ==
    \/ a[1] < b[1]
    \/ a[1] = b[1] /\ a[2] < b[2]
    \/ a[1] = b[1] /\ a[2] = b[2] /\ a[3] < b[3]
AscendingTimeKey(e) ==
    <<ColumnOf(e), e.start_time, FirstRow(e.receiver_files[1])>>
TableOrderKey(e) ==
    <<ColumnOf(e), FirstRowAt(ColumnOf(e), e.start_time), FirstRow(e.receiver_files[1])>>

C16_ReferenceDelayIsZero ==
    /\ (pc = "event" /\ spatial_event.tdoas # None)
       => /\ Len(spatial_event.tdoas) = Len(spatial_event.receiver_files)
          /\ Len(spatial_event.cc_maxs) = Len(spatial_event.receiver_files)
          /\ spatial_event.tdoas[1] = Zero
          /\ spatial_event.cc_maxs[1] = One
    /\ (pc = "event" /\ calls > 0 /\ args.op = "estimate_delays" /\ result.raised = "")
       => /\ result.value = <<spatial_event.tdoas, spatial_event.cc_maxs>>
          /\ \A i \in 2..Len(spatial_event.receiver_files) :
                 /\ spatial_event.tdoas[i] = args.xc[i - 1][1]
                 /\ spatial_event.cc_maxs[i] = args.xc[i - 1][2]
C16_Witness ==
    /\ pc = "event"
    /\ calls > 0
    /\ args.op = "estimate_delays"
    /\ result.raised = ""
    /\ args.xc[1] = <<Delay(1), Int2F(2)>>
    /\ args.xc[2] = <<Delay(0), Zero>>
    /\ spatial_event.tdoas[1] = Zero
    /\ spatial_event.cc_maxs[1] = One

\* a residual_rms that is a number and not below 0
RmsNonNegative(r) == ~IsNaN(r) /\ FLe(Zero, Radicand(r))
\* a position estimate of the solver's NaN output
IsNanEstimate(position) ==
    /\ position # None
    /\ IsColumn(position)
    /\ \A i \in 1..Len(position) : IsNaN(position[i][1])

C19_GilletteRecoversSource ==
    (pc = "truth" /\ args.algorithm = "gillette")
    => (result.raised = "" /\ result.value = args.source)

\* C20: soundfinder_localize, given the time differences of arrival of a sound
\* from a known source at four receivers that are not on a line, returns the
\* position of the source.
C20_SoundfinderRecoversSource ==
    (pc = "truth" /\ args.algorithm = "soundfinder")
    => (result.raised = "" /\ result.value = args.source)

\* the receivers of the end-to-end scenario
ScenarioReceivers == <<Position(0, 0), Position(10, 0), Position(0, 10), Position(10, 10)>>

\* C21: for the receivers (0,0), (10,0), (0,10), (10,10) and the tdoas of a
\* source at (5,5), which are all zero, localize with "gillette" returns (5,5),
\* and calculate_tdoa_residuals at that estimate returns the zero vector.
C21_ScenarioRecoversCentre ==
    (/\ pc \in {"truth", "truth_residuals"}
     /\ args.receiver_positions = ScenarioReceivers
     /\ args.source = Position(5, 5)
     /\ args.algorithm = "gillette")
    => /\ args.tdoas = <<Zero, Zero, Zero, Zero>>
       /\ result.raised = ""
       /\ pc = "truth" => result.value = Position(5, 5)
       /\ pc = "truth_residuals"
              => /\ args.position_estimate = Position(5, 5)
                 /\ result.value = <<Zero, Zero, Zero, Zero>>
C21_Witness ==
    /\ pc = "truth_residuals"
    /\ args.receiver_positions = ScenarioReceivers
    /\ args.source = Position(5, 5)
    /\ args.algorithm = "gillette"
    /\ result.value = <<Zero, Zero, Zero, Zero>>

\* the running call has ended with the error of a failed audio load
AudioLoadFailed == pc = "raised" /\ result.raised = "AudioError"

\* C22: when loading audio fails during the delay estimation of one candidate
\* event inside localize_detections, the error leaves localize_detections: the
\* call returns no lists, the event is in neither list, and no event is ever
\* recorded in a list without its delays.
C22_FailedLoadEndsCall ==
    /\ AudioLoadFailed =>
           /\ result.value # <<localized_events, unlocalized_events>>
           /\ Len(result.value) = 1
           /\ ~InList(localized_events, cursor)
           /\ ~InList(unlocalized_events, cursor)
           /\ candidate_events[cursor].tdoas = Unset
    /\ \A i \in 1..Len(candidate_events) :
           (InList(localized_events, i) \/ InList(unlocalized_events, i))
               => candidate_events[i].tdoas # Unset
\* the events classified before the failing one are lost with the call
C22_Witness ==
    /\ AudioLoadFailed
    /\ cursor > 1
    /\ Len(localized_events) + Len(unlocalized_events) = cursor - 1
    /\ cursor < Len(candidate_events)

\* C22 as stated: after a failed load the event is recorded in the unlocalized
\* list.
C22_FailedLoadRecordsEvent ==
    AudioLoadFailed => InList(unlocalized_events, cursor)


\* C23: estimate_delays called with bandpass_range None bandpasses to the
\* range the event was constructed with, and so does the estimate_delays that
\* estimate_location calls on a fresh event.
C23_NoneUsesStoredRange ==
    /\ (/\ pc = "event"
        /\ calls > 0
        /\ args.op = "estimate_delays"
        /\ result.raised = ""
        /\ args.bandpass_range = None)
       => bandpassed = spatial_event.bandpass_range
    /\ (pc = "event" /\ calls = 1 /\ args.op = "estimate_location")
       => bandpassed = spatial_event.bandpass_range


\* receivers in the plane that are all on one line
OnALine(receiver_positions) ==
    \A i, j \in 1..Len(receiver_positions) :
        LET u == VSub(receiver_positions[i], receiver_positions[1])
            v == VSub(receiver_positions[j], receiver_positions[1])
        IN  FSub(FMul(u[1], v[2]), FMul(u[2], v[1])) = Zero
\* localize has returned from soundfinder_localize
SoundfinderReturned ==
    /\ pc \in {"solved", "truth"}
    /\ args.algorithm = "soundfinder"
    /\ result.raised = ""
SingularWarned == "Singular matrix" \in result.warnings

\* C24: when B^T B is singular, as it is for receivers on a line,
\* soundfinder_localize does not raise: it warns and returns a list of dim
\* one-element lists that each hold NaN, which has the shape (dim, 1) and not
\* the shape (dim,) of a successful result, an array of dim numbers.
C24_SingularReturnsNanColumn ==
    /\ (/\ pc \in {"solved", "truth"}
        /\ args.algorithm = "soundfinder"
        /\ OnALine(args.receiver_positions))
       => (result.raised = "" /\ SingularWarned)
    /\ (SoundfinderReturned /\ SingularWarned)
       => /\ Len(result.value) = Len(args.receiver_positions[1])
          /\ \A c \in 1..Len(result.value) : result.value[c] = <<NaN>>
    /\ (SoundfinderReturned /\ ~SingularWarned)
       => /\ Len(result.value) = Len(args.receiver_positions[1])
          /\ \A c \in 1..Len(result.value) : Len(result.value[c]) > 1
C24_Witness ==
    /\ SoundfinderReturned
    /\ SingularWarned
    /\ OnALine(args.receiver_positions)
    /\ result.value = <<<<NaN>>, <<NaN>>>>

\* C24 as stated: the singular result is a vector of dim components that are
\* all NaN, of the shape of a successful result.
C24_SingularReturnsNanVector ==
    (SoundfinderReturned /\ SingularWarned)
        => /\ Len(result.value) = Len(args.receiver_positions[1])
           /\ \A c \in 1..Len(result.value) : result.value[c] = NaN


\* one pass of the loop of localize_detections, step by step
PassStep ==
    /\ (pc = "loop" /\ pc' = "locate")
       => /\ cursor' = cursor
          /\ candidate_events[cursor].tdoas = None
          /\ candidate_events'[cursor].tdoas # None
          /\ audio_loads' = audio_loads + Len(candidate_events[cursor].receiver_files)
          /\ solver_calls' = solver_calls
          /\ localized_events' = localized_events
          /\ unlocalized_events' = unlocalized_events
    /\ pc = "locate"
       => /\ pc' \in {"loop", "raised"}
          /\ audio_loads' = audio_loads
          /\ candidate_events'[cursor].tdoas = candidate_events[cursor].tdoas
          /\ candidate_events'[cursor].cc_maxs = candidate_events[cursor].cc_maxs
          /\ solver_calls' \in {solver_calls, solver_calls + 1}
    /\ (pc = "locate" /\ pc' = "loop")
       => /\ cursor' = cursor + 1
          /\ \/ /\ localized_events' = Append(localized_events, cursor)
                /\ unlocalized_events' = unlocalized_events
             \/ /\ unlocalized_events' = Append(unlocalized_events, cursor)
                /\ localized_events' = localized_events
    /\ (pc \in {"loop", "locate"} /\ pc' = "raised")
       => /\ cursor' = cursor
          /\ localized_events' = localized_events
          /\ unlocalized_events' = unlocalized_events
    /\ pc \in {"loop", "locate"}
       => /\ Len(candidate_events') = Len(candidate_events)
          /\ \A i \in 1..Len(candidate_events) :
                 i # cursor => candidate_events'[i] = candidate_events[i]

\* the events the loop has passed are once in one list and hold delays, the
\* events it has not reached are in no list and hold none
PassedOnceEach ==
    pc \in {"loop", "locate", "raised", "done"} =>
        \A i \in 1..Len(candidate_events) :
            /\ Occurrences(localized_events, i) + Occurrences(unlocalized_events, i)
                   = (IF i < cursor THEN 1 ELSE 0)
            /\ i > cursor => candidate_events[i].tdoas = None
            /\ i < cursor => candidate_events[i].tdoas # None

\* C25: in localize_detections an event's pass of the loop is estimate_delays
\* once, on an event without delays, then one estimate_location that loads no
\* audio and keeps the stored delays, then one append of the event to exactly
\* one list; the events before and after it are left alone; a pass that
\* raises leaves its event in neither list and ends the call.  Every event
\* the loop has passed is once in one list, none of the others is in any.
C25_OnePassPerEvent ==
    []PassedOnceEach /\ [][PassStep]_vars
C25_Witness ==
    /\ pc = "done"
    /\ Len(candidate_events) >= 2
    /\ Len(localized_events) > 0
    /\ Len(unlocalized_events) > 0
    /\ solver_calls >= 1
    /\ audio_loads >= 2 * Len(candidate_events)

\* C25 as stated: every candidate event reaches exactly one terminal outcome:
\* when the call is over, each is once in one of the two lists.
C25_EveryEventClassified ==
    pc \in {"raised", "done"} =>
        \A i \in 1..Len(candidate_events) :
            Occurrences(localized_events, i) + Occurrences(unlocalized_events, i) = 1


\* the files of the index of file_coords
IndexFiles == Range(CoordIndex(file_coords))
\* the files listed for file a by the dictionary that was returned
ListedFor(a) == Range(result.value[a])

\* C26: make_nearby_files_dict(r_max) returns a dictionary with one key per
\* file of file_coords; the list of file a holds, once each, exactly the other
\* files whose recorder is at a distance <= r_max from a's, a distance of
\* exactly r_max included; a is never in its own list, and b is listed for a
\* if and only if a is listed for b.
C26_NearbyWithinRange ==
    pc = "nearby" =>
        /\ DOMAIN result.value = IndexFiles
        /\ \A a \in IndexFiles :
            /\ ListedFor(a) = { b \in IndexFiles \ {a} : RootLe(Apart(a, b), args.r_max) }
            /\ Cardinality(ListedFor(a)) = Len(result.value[a])
            /\ a \notin ListedFor(a)
            /\ \A b \in IndexFiles : b \in ListedFor(a) <=> a \in ListedFor(b)
C26_Witness ==
    /\ pc = "nearby"
    /\ \E a, b, c \in IndexFiles :
        /\ Apart(a, b) = Root(FMul(args.r_max, args.r_max))
        /\ b \in ListedFor(a)
        /\ a \in ListedFor(b)
        /\ c # a
        /\ c \notin ListedFor(a)


\* the step of an estimate_location call on the event
EstimateLocationStep == calls' = calls + 1 /\ args'.op = "estimate_location"
\* the lists of the event have one entry per receiver where they are populated
LengthsEqual ==
    pc = "event" =>
        /\ Len(spatial_event.receiver_positions) = Len(spatial_event.receiver_files)
        /\ spatial_event.tdoas # None
               => Len(spatial_event.tdoas) = Len(spatial_event.receiver_files)
        /\ spatial_event.cc_maxs # None
               => Len(spatial_event.cc_maxs) = Len(spatial_event.receiver_files)

\* C27: estimate_location leaves receiver_files and receiver_positions as they
\* were, and the delays and cc maxima the event holds as they were, also when
\* the cc filter drops receivers; on an event without delays they are those of
\* its estimate_delays, one per receiver.  After any calls the lists of the
\* event have the same length wherever they are populated.
C27_FilterKeepsEventLists ==
    /\ []LengthsEqual
    /\ [][EstimateLocationStep =>
            /\ spatial_event'.receiver_files = spatial_event.receiver_files
            /\ spatial_event'.receiver_positions = spatial_event.receiver_positions
            /\ IF spatial_event.tdoas # None
               THEN /\ spatial_event'.tdoas = spatial_event.tdoas
                    /\ spatial_event'.cc_maxs = spatial_event.cc_maxs
               ELSE /\ Len(spatial_event'.tdoas) = Len(spatial_event.receiver_files)
                    /\ Len(spatial_event'.cc_maxs) = Len(spatial_event.receiver_files)]_vars
C27_Witness ==
    /\ pc = "event"
    /\ calls = 2
    /\ args.op = "estimate_location"
    /\ result.raised = ""
    /\ Len(solver_input[2]) < Len(spatial_event.tdoas)
    /\ Len(spatial_event.cc_maxs) = Len(spatial_event.receiver_files)


\* C28: whatever the cc_threshold, the receivers estimate_location hands to the
\* solver start with the reference receiver, whose tdoa is 0, and no call of
\* localize_detections with "gillette" ends with the ValueError of a missing
\* reference.
C28_ReferenceAlwaysPassed ==
    /\ (pc \in {"loop", "locate", "raised", "done"} /\ solver_input # None)
       => /\ Len(solver_input[2]) > 0
          /\ solver_input[2][1] = Zero
          /\ \E i \in 1..Len(candidate_events) :
                 solver_input[1][1] = candidate_events[i].receiver_positions[1]
    /\ (pc = "raised" /\ args.localization_algorithm = "gillette")
       => result.raised # "ValueError"


\* the residuals of all the receivers of the event at its position estimate
AllResiduals ==
    calculate_tdoa_residuals(spatial_event.receiver_positions, spatial_event.tdoas,
                             spatial_event.position_estimate, Speed)
\* estimate_location has returned a position
EstimateLocationReturned ==
    pc = "event" /\ calls > 0 /\ args.op = "estimate_location" /\ result.raised = ""

\* C29: the residual_rms estimate_location stores is the root mean square of
\* the residuals of all the receivers of the event with their stored tdoas,
\* those the cc filter kept from the solver included; distance_residuals has
\* one entry per receiver of the event.
C29_RmsOverAllReceivers ==
    EstimateLocationReturned =>
        /\ spatial_event.distance_residuals = AllResiduals
        /\ Len(spatial_event.distance_residuals) = Len(spatial_event.receiver_files)
        /\ spatial_event.residual_rms =
               Root(Mean(Tuple([i \in 1..Len(AllResiduals) |->
                                   FMul(AllResiduals[i], AllResiduals[i])])))
C29_Witness ==
    /\ EstimateLocationReturned
    /\ Len(solver_input[2]) < Len(spatial_event.receiver_files)
    /\ Len(spatial_event.distance_residuals) = Len(spatial_event.receiver_files)
    /\ RmsNonNegative(spatial_event.residual_rms)


=============================================================================
